---- MODULE Spec2Model ----
(***************************************************************************)
(* Code Context Graph of backend/utils/code_analyzer.py.                   *)
(*                                                                         *)
(* Strings are sequences of symbols (a symbol is a character or an atomic  *)
(* piece of text such as ".py"), so that building a node id is a real      *)
(* concatenation and comparing two names is a comparison of texts.         *)
(* A Python dict is a function from its keys; a missing key is a key that  *)
(* is not in the DOMAIN.  A Python list is a sequence.                     *)
(***************************************************************************)
EXTENDS Integers, Sequences, FiniteSets, TLC

VARIABLES
    nodes,      \* CodeContextGraph.nodes
    edges,      \* CodeContextGraph.edges
    file_map,   \* CodeContextGraph.file_map
    ret,        \* the operation of the last step, its argument and what it returned
    exported,   \* <<d>> when the caller keeps the dict d of its last export_to_dict(), else <<>>
    log,        \* history: one entry per add_file_analysis call
    parsers,    \* CodeParser.parsers: the languages that have a parser
    analyzer,   \* PythonAnalyzer: its functions, classes and imports attributes
    batch,      \* the file paths of a batch run, in the caller's order
    pos,        \* how many files of the batch have been processed
    heap,       \* the list objects PythonAnalyzer has created: heap[k] holds the
                \* three lists of its k-th allocation; self refers to the last
    results     \* the dicts analyze has returned so far, kept by the caller

vars ==
    <<nodes, edges, file_map, ret, exported, log, parsers, analyzer, batch, pos,
      heap, results>>

\* the state of the file pipeline, which the graph operations do not touch
pipeline == <<parsers, analyzer, batch, pos, heap, results>>

graph == <<nodes, edges, file_map>>

-----------------------------------------------------------------------------
(* Bounds and input sets *)

\* number of add_file_analysis calls in one run
MaxIngest == 2

\* number of files in a batch
MaxBatch == 3

\* number of parse_file calls on one CodeParser
MaxParse == 2

\* number of analyze calls on one PythonAnalyzer
MaxAnalyze == 3

None == "None"

\* the default of analysis.get('file_path', 'unknown')
Unknown == <<"unknown">>

\* {} : the dict with no keys
EmptyDict == [k \in {} |-> None]

PA == <<"a", ".py">>
PB == <<"b", ".py">>
Paths == {PA, PB}

\* entity and call names; F is a proper prefix of FG (as foo is of foobar)
F == <<"f">>
FG == <<"f", "g">>
H == <<"h">>
Names == {F, FG, H}

\* a function record as PythonAnalyzer._extract_function builds it
FuncRec(name, calls) ==
    [type |-> "function", name |-> name, params |-> <<>>,
     line_start |-> 1, line_end |-> 2, calls |-> calls]

\* a class record as PythonAnalyzer._extract_class builds it
ClassRec(name, bases) ==
    [type |-> "class", name |-> name, methods |-> <<>>, bases |-> bases,
     line_start |-> 1, line_end |-> 2]

\* a function record that lacks its 'calls' key
BadFuncRec(name) ==
    [type |-> "function", name |-> name, params |-> <<>>,
     line_start |-> 1, line_end |-> 2]

FuncLists ==
    { <<>>,
      <<FuncRec(F, <<FG>>)>>,
      <<FuncRec(FG, <<F, H, F>>), FuncRec(FG, <<>>)>>,
      <<FuncRec(F, <<H>>), BadFuncRec(F), FuncRec(H, <<>>)>> }

ClassLists ==
    { <<>>,
      <<ClassRec(FG, <<F, H>>), ClassRec(H, <<>>)>> }

\* the dicts handed to add_file_analysis
Analyses ==
    [file_path : Paths, functions : FuncLists, classes : ClassLists, imports : {<<>>}]
    \cup {EmptyDict}

\* PythonAnalyzer.__init__ : three empty lists
NoLists == [functions |-> <<>>, classes |-> <<>>, imports |-> <<>>]

-----------------------------------------------------------------------------
(* dict.get(key, default) *)
Get(d, key, default) == IF key \in DOMAIN d THEN d[key] ELSE default

(* f"{file_path}::{name}" *)
NodeId(file_path, name) == file_path \o <<":", ":">> \o name

FuncKeys == {"name", "line_start", "line_end", "params", "calls"}
ClassKeys == {"name", "line_start", "line_end", "methods", "bases"}

FunctionNode(file_path, func) ==
    [id |-> NodeId(file_path, func.name),
     type |-> "function",
     name |-> func.name,
     file |-> file_path,
     line_start |-> func.line_start,
     line_end |-> func.line_end,
     params |-> func.params,
     calls |-> func.calls]

ClassNode(file_path, cls) ==
    [id |-> NodeId(file_path, cls.name),
     type |-> "class",
     name |-> cls.name,
     file |-> file_path,
     line_start |-> cls.line_start,
     line_end |-> cls.line_end,
     methods |-> cls.methods,
     bases |-> cls.bases]

\* mutant of CallEdges: 'from' and 'to' swapped
CallEdgesSwapped(node_id, calls, file_path) ==
    [i \in 1..Len(calls) |->
        [from |-> calls[i], to |-> node_id, type |-> "calls", file |-> file_path]]

\* the edges of the loop "for call in func['calls']"
CallEdges(node_id, calls, file_path) ==
    [i \in 1..Len(calls) |->
        [from |-> node_id, to |-> calls[i], type |-> "calls", file |-> file_path]]

\* mutant of InheritEdges: only the first base gets an edge
InheritEdgesFirstBase(node_id, bases, file_path) ==
    [i \in 1..(IF bases = <<>> THEN 0 ELSE 1) |->
        [from |-> node_id, to |-> bases[i], type |-> "inherits", file |-> file_path]]

\* the edges of the loop "for base in cls['bases']"
InheritEdges(node_id, bases, file_path) ==
    [i \in 1..Len(bases) |->
        [from |-> node_id, to |-> bases[i], type |-> "inherits", file |-> file_path]]

\* the loop over analysis['functions'], from its k-th record on; g is the graph
\* so far, g.raised says that a KeyError has ended the call
RECURSIVE IngestFunctions(_, _, _, _)
IngestFunctions(funcs, k, file_path, g) ==
    IF k > Len(funcs) THEN g
    ELSE LET func == funcs[k] IN
         IF ~(FuncKeys \subseteq DOMAIN func)
         THEN [g EXCEPT !.raised = TRUE]
         ELSE IngestFunctions(funcs, k + 1, file_path,
                [g EXCEPT !.nodes = Append(@, FunctionNode(file_path, func)),
                          !.edges = @ \o CallEdges(NodeId(file_path, func.name),
                                                   func.calls, file_path)])

\* mutant of IngestClasses: nodes.insert(0, node) instead of nodes.append(node)
RECURSIVE IngestClassesAtFront(_, _, _, _)
IngestClassesAtFront(classes, k, file_path, g) ==
    IF k > Len(classes) THEN g
    ELSE LET cls == classes[k] IN
         IF ~(ClassKeys \subseteq DOMAIN cls)
         THEN [g EXCEPT !.raised = TRUE]
         ELSE IngestClassesAtFront(classes, k + 1, file_path,
                [g EXCEPT !.nodes = <<ClassNode(file_path, cls)>> \o @,
                          !.edges = @ \o InheritEdges(NodeId(file_path, cls.name),
                                                      cls.bases, file_path)])

\* the loop over analysis['classes']
RECURSIVE IngestClasses(_, _, _, _)
IngestClasses(classes, k, file_path, g) ==
    IF k > Len(classes) THEN g
    ELSE LET cls == classes[k] IN
         IF ~(ClassKeys \subseteq DOMAIN cls)
         THEN [g EXCEPT !.raised = TRUE]
         ELSE IngestClasses(classes, k + 1, file_path,
                [g EXCEPT !.nodes = Append(@, ClassNode(file_path, cls)),
                          !.edges = @ \o InheritEdges(NodeId(file_path, cls.name),
                                                      cls.bases, file_path)])

\* [f['name'] for f in records]
NamesOf(records) == [i \in 1..Len(records) |-> records[i].name]

\* mutant of SetFileMap: the names are appended to the entry the path already has
SetFileMapExtending(g, file_path, analysis) ==
    LET fs == Get(analysis, "functions", <<>>)
        cs == Get(analysis, "classes", <<>>)
        old == IF file_path \in DOMAIN g.file_map THEN g.file_map[file_path]
               ELSE [functions |-> <<>>, classes |-> <<>>]
        entry == [functions |-> old.functions \o NamesOf(fs),
                  classes |-> old.classes \o NamesOf(cs)]
    IN [g EXCEPT !.file_map =
            [p \in DOMAIN g.file_map \cup {file_path} |->
                IF p = file_path THEN entry ELSE g.file_map[p]]]

\* CodeContextGraph.add_file_analysis, its last statement: file_map[file_path] = ...
SetFileMap(g, file_path, analysis) ==
    LET fs == Get(analysis, "functions", <<>>)
        cs == Get(analysis, "classes", <<>>)
        entry == [functions |-> NamesOf(fs), classes |-> NamesOf(cs)]
    IN [g EXCEPT !.file_map =
            [p \in DOMAIN g.file_map \cup {file_path} |->
                IF p = file_path THEN entry ELSE g.file_map[p]]]

\* mutant of add_file_analysis: the file's earlier nodes and edges are dropped
\* before its records are added (replace instead of append)
add_file_analysis_replacing(g, analysis) ==
    LET file_path == Get(analysis, "file_path", Unknown)
        g0 == [g EXCEPT !.nodes = SelectSeq(@, LAMBDA n : n.file # file_path),
                        !.edges = SelectSeq(@, LAMBDA e : e.file # file_path)]
        g1 == IngestFunctions(Get(analysis, "functions", <<>>), 1, file_path, g0)
        g2 == IF g1.raised THEN g1
              ELSE IngestClasses(Get(analysis, "classes", <<>>), 1, file_path, g1)
    IN IF g2.raised THEN g2 ELSE SetFileMap(g2, file_path, analysis)

\* CodeContextGraph.add_file_analysis on the graph g: the graph after the call
add_file_analysis(g, analysis) ==
    LET file_path == Get(analysis, "file_path", Unknown)
        g1 == IngestFunctions(Get(analysis, "functions", <<>>), 1, file_path, g)
        g2 == IF g1.raised THEN g1
              ELSE IngestClasses(Get(analysis, "classes", <<>>), 1, file_path, g1)
    IN IF g2.raised THEN g2 ELSE SetFileMap(g2, file_path, analysis)

\* mutant of get_statistics: 'functions' counts the nodes without the type filter
get_statistics_unfiltered(ns, es, fm) ==
    [total_nodes |-> Len(ns),
     total_edges |-> Len(es),
     functions |-> Len(ns),
     classes |-> Len(SelectSeq(ns, LAMBDA n : n.type = "class")),
     files_analyzed |-> Cardinality(DOMAIN fm)]

\* CodeContextGraph.get_statistics
get_statistics(ns, es, fm) ==
    [total_nodes |-> Len(ns),
     total_edges |-> Len(es),
     functions |-> Len(SelectSeq(ns, LAMBDA n : n.type = "function")),
     classes |-> Len(SelectSeq(ns, LAMBDA n : n.type = "class")),
     files_analyzed |-> Cardinality(DOMAIN fm)]

\* mutant of find_callers: the edge type is not tested
find_callers_any_type(es, function_name) ==
    LET hits == SelectSeq(es, LAMBDA e : e.to = function_name)
    IN [i \in 1..Len(hits) |-> hits[i].from]

\* CodeContextGraph.find_callers
find_callers(es, function_name) ==
    LET hits == SelectSeq(es, LAMBDA e : e.type = "calls" /\ e.to = function_name)
    IN [i \in 1..Len(hits) |-> hits[i].from]

\* CodeContextGraph.find_callees: the loop from the k-th node on
RECURSIVE find_callees_from(_, _, _)
find_callees_from(ns, k, function_name) ==
    IF k > Len(ns) THEN <<>>
    ELSE IF ns[k].name = function_name THEN Get(ns[k], "calls", <<>>)
    ELSE find_callees_from(ns, k + 1, function_name)

\* mutant of find_callees: no break, so the last node of that name decides
find_callees_no_break(ns, function_name) ==
    LET M == {i \in 1..Len(ns) : ns[i].name = function_name} IN
    IF M = {} THEN <<>>
    ELSE Get(ns[CHOOSE i \in M : \A j \in M : j <= i], "calls", <<>>)

find_callees(ns, function_name) == find_callees_from(ns, 1, function_name)

\* CodeContextGraph.export_to_dict: the dict holds the graph's own list and dict
\* objects (references), and a statistics dict built by this call
export_to_dict(ns, es, fm) ==
    [nodes |-> "self.nodes",
     edges |-> "self.edges",
     file_map |-> "self.file_map",
     statistics |-> get_statistics(ns, es, fm)]

\* the object a reference of an export denotes now
Deref(ref) ==
    CASE ref = "self.nodes" -> nodes
      [] ref = "self.edges" -> edges
      [] ref = "self.file_map" -> file_map

-----------------------------------------------------------------------------
(* Source files and syntax trees.  A source text is a sequence of symbols; a *)
(* byte offset is the number of symbols before a position.  A tree node has  *)
(* the fields of a tree-sitter Node that the analyzer reads.                 *)

Node(type, start_byte, end_byte, start_row, end_row, children) ==
    [type |-> type, start_byte |-> start_byte, end_byte |-> end_byte,
     start_row |-> start_row, end_row |-> end_row, children |-> children]

\* a node without children that lies on one line
Leaf(type, start_byte, end_byte, row) ==
    Node(type, start_byte, end_byte, row, row, <<>>)

\* code[start_byte:end_byte]
Slice(code, start_byte, end_byte) == SubSeq(code, start_byte + 1, end_byte)

\* all nodes of the subtree of n, in document order (n first)
RECURSIVE PreOrder(_), PreOrderOf(_, _)
PreOrder(n) == <<n>> \o PreOrderOf(n.children, 1)

PreOrderOf(children, k) ==
    IF k > Len(children) THEN <<>>
    ELSE PreOrder(children[k]) \o PreOrderOf(children, k + 1)

\* the sequence s without the repetitions of its elements
RECURSIVE Dedup(_)
Dedup(s) ==
    IF s = <<>> THEN <<>>
    ELSE LET front == Dedup(SubSeq(s, 1, Len(s) - 1)) IN
         IF \E i \in 1..(Len(s) - 1) : s[i] = s[Len(s)] THEN front
         ELSE Append(front, s[Len(s)])

\* def f(): fg()
CodeA == <<"def", " ", "f", "(", ")", ":", " ", "f", "g", "(", ")">>
TreeA ==
    Node("module", 0, 11, 0, 0, <<
      Node("function_definition", 0, 11, 0, 0, <<
        Leaf("def", 0, 1, 0),
        Leaf("identifier", 2, 3, 0),
        Node("parameters", 3, 5, 0, 0, <<Leaf("(", 3, 4, 0), Leaf(")", 4, 5, 0)>>),
        Leaf(":", 5, 6, 0),
        Node("block", 7, 11, 0, 0, <<
          Node("expression_statement", 7, 11, 0, 0, <<
            Node("call", 7, 11, 0, 0, <<
              Leaf("identifier", 7, 9, 0),
              Node("argument_list", 9, 11, 0, 0,
                   <<Leaf("(", 9, 10, 0), Leaf(")", 10, 11, 0)>>) >>) >>) >>) >>) >>)

\* class fg(f):
\*     def h(self): f()
CodeB == <<"class", " ", "f", "g", "(", "f", ")", ":", "\n",
           "def", " ", "h", "(", "self", ")", ":", " ", "f", "(", ")">>
TreeB ==
    Node("module", 0, 20, 0, 1, <<
      Node("class_definition", 0, 20, 0, 1, <<
        Leaf("class", 0, 1, 0),
        Leaf("identifier", 2, 4, 0),
        Node("argument_list", 4, 7, 0, 0,
             <<Leaf("(", 4, 5, 0), Leaf("identifier", 5, 6, 0), Leaf(")", 6, 7, 0)>>),
        Leaf(":", 7, 8, 0),
        Node("block", 9, 20, 1, 1, <<
          Node("function_definition", 9, 20, 1, 1, <<
            Leaf("def", 9, 10, 1),
            Leaf("identifier", 11, 12, 1),
            Node("parameters", 12, 15, 1, 1,
                 <<Leaf("(", 12, 13, 1), Leaf("identifier", 13, 14, 1),
                   Leaf(")", 14, 15, 1)>>),
            Leaf(":", 15, 16, 1),
            Node("block", 17, 20, 1, 1, <<
              Node("expression_statement", 17, 20, 1, 1, <<
                Node("call", 17, 20, 1, 1, <<
                  Leaf("identifier", 17, 18, 1),
                  Node("argument_list", 18, 20, 1, 1,
                       <<Leaf("(", 18, 19, 1), Leaf(")", 19, 20, 1)>>) >>) >>) >>) >>) >>) >>) >>)

\* f()   as the JavaScript grammar parses it
CodeE == <<"f", "(", ")">>
TreeE ==
    Node("program", 0, 3, 0, 0, <<
      Node("expression_statement", 0, 3, 0, 0, <<
        Node("call_expression", 0, 3, 0, 0, <<
          Leaf("identifier", 0, 1, 0),
          Node("arguments", 1, 3, 0, 0,
               <<Leaf("(", 1, 2, 0), Leaf(")", 2, 3, 0)>>) >>) >>) >>)

\* def outer():
\*     def foo(a, b):
\*         bar()
\*         baz()
\*     foo()
CodeOuter ==
  <<
    "def", " ", "outer", "(", ")", ":", "\n", "def", " ", "foo", "(", "a",
    ",", " ", "b", ")", ":", "\n", "bar", "(", ")", "\n", "baz", "(", ")",
    "\n", "foo", "(", ")"
  >>
TreeOuter ==
    Node("module", 0, 29, 0, 4, <<
      Node("function_definition", 0, 29, 0, 4, <<
        Leaf("def", 0, 1, 0),
        Leaf("identifier", 2, 3, 0),
        Node("parameters", 3, 5, 0, 0, <<
          Leaf("(", 3, 4, 0),
          Leaf(")", 4, 5, 0) >>),
        Leaf(":", 5, 6, 0),
        Node("block", 7, 29, 1, 4, <<
          Node("function_definition", 7, 25, 1, 3, <<
            Leaf("def", 7, 8, 1),
            Leaf("identifier", 9, 10, 1),
            Node("parameters", 10, 16, 1, 1, <<
              Leaf("(", 10, 11, 1),
              Leaf("identifier", 11, 12, 1),
              Leaf(",", 12, 13, 1),
              Leaf("identifier", 14, 15, 1),
              Leaf(")", 15, 16, 1) >>),
            Leaf(":", 16, 17, 1),
            Node("block", 18, 25, 2, 3, <<
              Node("expression_statement", 18, 21, 2, 2, <<
                Node("call", 18, 21, 2, 2, <<
                  Leaf("identifier", 18, 19, 2),
                  Node("argument_list", 19, 21, 2, 2, <<
                    Leaf("(", 19, 20, 2),
                    Leaf(")", 20, 21, 2) >>) >>) >>),
              Node("expression_statement", 22, 25, 3, 3, <<
                Node("call", 22, 25, 3, 3, <<
                  Leaf("identifier", 22, 23, 3),
                  Node("argument_list", 23, 25, 3, 3, <<
                    Leaf("(", 23, 24, 3),
                    Leaf(")", 24, 25, 3) >>) >>) >>) >>) >>),
          Node("expression_statement", 26, 29, 4, 4, <<
            Node("call", 26, 29, 4, 4, <<
              Leaf("identifier", 26, 27, 4),
              Node("argument_list", 27, 29, 4, 4, <<
                Leaf("(", 27, 28, 4),
                Leaf(")", 28, 29, 4) >>) >>) >>) >>) >>) >>)

\* def a():
\*     x()
\*     def b():
\*         def c():
\*             y()
\*             y()
\*         x()
CodeNest ==
  <<
    "def", " ", "a", "(", ")", ":", "\n", "x", "(", ")", "\n", "def", " ",
    "b", "(", ")", ":", "\n", "def", " ", "c", "(", ")", ":", "\n", "y",
    "(", ")", "\n", "y", "(", ")", "\n", "x", "(", ")"
  >>
TreeNest ==
    Node("module", 0, 36, 0, 6, <<
      Node("function_definition", 0, 36, 0, 6, <<
        Leaf("def", 0, 1, 0),
        Leaf("identifier", 2, 3, 0),
        Node("parameters", 3, 5, 0, 0, <<
          Leaf("(", 3, 4, 0),
          Leaf(")", 4, 5, 0) >>),
        Leaf(":", 5, 6, 0),
        Node("block", 7, 36, 1, 6, <<
          Node("expression_statement", 7, 10, 1, 1, <<
            Node("call", 7, 10, 1, 1, <<
              Leaf("identifier", 7, 8, 1),
              Node("argument_list", 8, 10, 1, 1, <<
                Leaf("(", 8, 9, 1),
                Leaf(")", 9, 10, 1) >>) >>) >>),
          Node("function_definition", 11, 36, 2, 6, <<
            Leaf("def", 11, 12, 2),
            Leaf("identifier", 13, 14, 2),
            Node("parameters", 14, 16, 2, 2, <<
              Leaf("(", 14, 15, 2),
              Leaf(")", 15, 16, 2) >>),
            Leaf(":", 16, 17, 2),
            Node("block", 18, 36, 3, 6, <<
              Node("function_definition", 18, 32, 3, 5, <<
                Leaf("def", 18, 19, 3),
                Leaf("identifier", 20, 21, 3),
                Node("parameters", 21, 23, 3, 3, <<
                  Leaf("(", 21, 22, 3),
                  Leaf(")", 22, 23, 3) >>),
                Leaf(":", 23, 24, 3),
                Node("block", 25, 32, 4, 5, <<
                  Node("expression_statement", 25, 28, 4, 4, <<
                    Node("call", 25, 28, 4, 4, <<
                      Leaf("identifier", 25, 26, 4),
                      Node("argument_list", 26, 28, 4, 4, <<
                        Leaf("(", 26, 27, 4),
                        Leaf(")", 27, 28, 4) >>) >>) >>),
                  Node("expression_statement", 29, 32, 5, 5, <<
                    Node("call", 29, 32, 5, 5, <<
                      Leaf("identifier", 29, 30, 5),
                      Node("argument_list", 30, 32, 5, 5, <<
                        Leaf("(", 30, 31, 5),
                        Leaf(")", 31, 32, 5) >>) >>) >>) >>) >>),
              Node("expression_statement", 33, 36, 6, 6, <<
                Node("call", 33, 36, 6, 6, <<
                  Leaf("identifier", 33, 34, 6),
                  Node("argument_list", 34, 36, 6, 6, <<
                    Leaf("(", 34, 35, 6),
                    Leaf(")", 35, 36, 6) >>) >>) >>) >>) >>) >>) >>) >>)

\* from os import path
\* class Dog(Animal):
\*     def bark(self): self.run()
CodeDog ==
  <<
    "from", " ", "os", " ", "import", " ", "path", "\n", "class", " ",
    "Dog", "(", "Animal", ")", ":", "\n", "def", " ", "bark", "(", "self",
    ")", ":", " ", "self", ".", "run", "(", ")"
  >>
TreeDog ==
    Node("module", 0, 29, 0, 2, <<
      Node("import_from_statement", 0, 7, 0, 0, <<
        Leaf("from", 0, 1, 0),
        Node("dotted_name", 2, 3, 0, 0, <<
          Leaf("identifier", 2, 3, 0) >>),
        Leaf("import", 4, 5, 0),
        Node("dotted_name", 6, 7, 0, 0, <<
          Leaf("identifier", 6, 7, 0) >>) >>),
      Node("class_definition", 8, 29, 1, 2, <<
        Leaf("class", 8, 9, 1),
        Leaf("identifier", 10, 11, 1),
        Node("argument_list", 11, 14, 1, 1, <<
          Leaf("(", 11, 12, 1),
          Leaf("identifier", 12, 13, 1),
          Leaf(")", 13, 14, 1) >>),
        Leaf(":", 14, 15, 1),
        Node("block", 16, 29, 2, 2, <<
          Node("function_definition", 16, 29, 2, 2, <<
            Leaf("def", 16, 17, 2),
            Leaf("identifier", 18, 19, 2),
            Node("parameters", 19, 22, 2, 2, <<
              Leaf("(", 19, 20, 2),
              Leaf("identifier", 20, 21, 2),
              Leaf(")", 21, 22, 2) >>),
            Leaf(":", 22, 23, 2),
            Node("block", 24, 29, 2, 2, <<
              Node("expression_statement", 24, 29, 2, 2, <<
                Node("call", 24, 29, 2, 2, <<
                  Node("attribute", 24, 27, 2, 2, <<
                    Leaf("identifier", 24, 25, 2),
                    Leaf(".", 25, 26, 2),
                    Leaf("identifier", 26, 27, 2) >>),
                  Node("argument_list", 27, 29, 2, 2, <<
                    Leaf("(", 27, 28, 2),
                    Leaf(")", 28, 29, 2) >>) >>) >>) >>) >>) >>) >>) >>)

\* class K:
\*     def m(self): pass
\*     if x:
\*         def n(self): pass
\*     @d
\*     def p(self): pass
\*     class L:
\*         def q(self): pass
\*     def r(self): pass
CodeK ==
  <<
    "class", " ", "K", ":", "\n", "def", " ", "m", "(", "self", ")", ":",
    " ", "pass", "\n", "if", " ", "x", ":", "\n", "def", " ", "n", "(",
    "self", ")", ":", " ", "pass", "\n", "@", "d", "\n", "def", " ", "p",
    "(", "self", ")", ":", " ", "pass", "\n", "class", " ", "L", ":", "\n",
    "def", " ", "q", "(", "self", ")", ":", " ", "pass", "\n", "def", " ",
    "r", "(", "self", ")", ":", " ", "pass"
  >>
TreeK ==
    Node("module", 0, 67, 0, 8, <<
      Node("class_definition", 0, 67, 0, 8, <<
        Leaf("class", 0, 1, 0),
        Leaf("identifier", 2, 3, 0),
        Leaf(":", 3, 4, 0),
        Node("block", 5, 67, 1, 8, <<
          Node("function_definition", 5, 14, 1, 1, <<
            Leaf("def", 5, 6, 1),
            Leaf("identifier", 7, 8, 1),
            Node("parameters", 8, 11, 1, 1, <<
              Leaf("(", 8, 9, 1),
              Leaf("identifier", 9, 10, 1),
              Leaf(")", 10, 11, 1) >>),
            Leaf(":", 11, 12, 1),
            Node("block", 13, 14, 1, 1, <<
              Node("pass_statement", 13, 14, 1, 1, <<
                Leaf("pass", 13, 14, 1) >>) >>) >>),
          Node("if_statement", 15, 29, 2, 3, <<
            Leaf("if", 15, 16, 2),
            Leaf("identifier", 17, 18, 2),
            Leaf(":", 18, 19, 2),
            Node("block", 20, 29, 3, 3, <<
              Node("function_definition", 20, 29, 3, 3, <<
                Leaf("def", 20, 21, 3),
                Leaf("identifier", 22, 23, 3),
                Node("parameters", 23, 26, 3, 3, <<
                  Leaf("(", 23, 24, 3),
                  Leaf("identifier", 24, 25, 3),
                  Leaf(")", 25, 26, 3) >>),
                Leaf(":", 26, 27, 3),
                Node("block", 28, 29, 3, 3, <<
                  Node("pass_statement", 28, 29, 3, 3, <<
                    Leaf("pass", 28, 29, 3) >>) >>) >>) >>) >>),
          Node("decorated_definition", 30, 42, 4, 5, <<
            Node("decorator", 30, 32, 4, 4, <<
              Leaf("@", 30, 31, 4),
              Leaf("identifier", 31, 32, 4) >>),
            Node("function_definition", 33, 42, 5, 5, <<
              Leaf("def", 33, 34, 5),
              Leaf("identifier", 35, 36, 5),
              Node("parameters", 36, 39, 5, 5, <<
                Leaf("(", 36, 37, 5),
                Leaf("identifier", 37, 38, 5),
                Leaf(")", 38, 39, 5) >>),
              Leaf(":", 39, 40, 5),
              Node("block", 41, 42, 5, 5, <<
                Node("pass_statement", 41, 42, 5, 5, <<
                  Leaf("pass", 41, 42, 5) >>) >>) >>) >>),
          Node("class_definition", 43, 57, 6, 7, <<
            Leaf("class", 43, 44, 6),
            Leaf("identifier", 45, 46, 6),
            Leaf(":", 46, 47, 6),
            Node("block", 48, 57, 7, 7, <<
              Node("function_definition", 48, 57, 7, 7, <<
                Leaf("def", 48, 49, 7),
                Leaf("identifier", 50, 51, 7),
                Node("parameters", 51, 54, 7, 7, <<
                  Leaf("(", 51, 52, 7),
                  Leaf("identifier", 52, 53, 7),
                  Leaf(")", 53, 54, 7) >>),
                Leaf(":", 54, 55, 7),
                Node("block", 56, 57, 7, 7, <<
                  Node("pass_statement", 56, 57, 7, 7, <<
                    Leaf("pass", 56, 57, 7) >>) >>) >>) >>) >>),
          Node("function_definition", 58, 67, 8, 8, <<
            Leaf("def", 58, 59, 8),
            Leaf("identifier", 60, 61, 8),
            Node("parameters", 61, 64, 8, 8, <<
              Leaf("(", 61, 62, 8),
              Leaf("identifier", 62, 63, 8),
              Leaf(")", 63, 64, 8) >>),
            Leaf(":", 64, 65, 8),
            Node("block", 66, 67, 8, 8, <<
              Node("pass_statement", 66, 67, 8, 8, <<
                Leaf("pass", 66, 67, 8) >>) >>) >>) >>) >>) >>)

\* def f(a, b=x, *args, c: int): pass
CodeParams ==
  <<
    "def", " ", "f", "(", "a", ",", " ", "b", "=", "x", ",", " ", "*",
    "args", ",", " ", "c", ":", " ", "int", ")", ":", " ", "pass"
  >>
TreeParams ==
    Node("module", 0, 24, 0, 0, <<
      Node("function_definition", 0, 24, 0, 0, <<
        Leaf("def", 0, 1, 0),
        Leaf("identifier", 2, 3, 0),
        Node("parameters", 3, 21, 0, 0, <<
          Leaf("(", 3, 4, 0),
          Leaf("identifier", 4, 5, 0),
          Leaf(",", 5, 6, 0),
          Node("default_parameter", 7, 10, 0, 0, <<
            Leaf("identifier", 7, 8, 0),
            Leaf("=", 8, 9, 0),
            Leaf("identifier", 9, 10, 0) >>),
          Leaf(",", 10, 11, 0),
          Node("list_splat_pattern", 12, 14, 0, 0, <<
            Leaf("*", 12, 13, 0),
            Leaf("identifier", 13, 14, 0) >>),
          Leaf(",", 14, 15, 0),
          Node("typed_parameter", 16, 20, 0, 0, <<
            Leaf("identifier", 16, 17, 0),
            Leaf(":", 17, 18, 0),
            Node("type", 19, 20, 0, 0, <<
              Leaf("identifier", 19, 20, 0) >>) >>),
          Leaf(")", 20, 21, 0) >>),
        Leaf(":", 21, 22, 0),
        Node("block", 23, 24, 0, 0, <<
          Node("pass_statement", 23, 24, 0, 0, <<
            Leaf("pass", 23, 24, 0) >>) >>) >>) >>)


POuter == <<"outer", ".py">>
PNest == <<"nest", ".py">>
PDog == <<"dog", ".py">>
PK == <<"k", ".py">>
PParams == <<"params", ".py">>

PC == <<"c", ".py">>
PD == <<"d", ".txt">>
PE == <<"e", ".js">>
PU == <<"B", ".PY">>
BatchPaths == {PA, PB, PC, PD, PE, PU}

\* what reading and parsing a file gives: "error" when open() or read() raises
\* (a missing file, bytes that are not UTF-8), else the text and the tree that
\* the parser of the file's language builds from it
Disk(file_path) ==
    CASE file_path = PA -> [read |-> "ok", code |-> CodeA, tree |-> TreeA]
      [] file_path = PB -> [read |-> "ok", code |-> CodeB, tree |-> TreeB]
      [] file_path = PU -> [read |-> "ok", code |-> CodeB, tree |-> TreeB]
      [] file_path = PE -> [read |-> "ok", code |-> CodeE, tree |-> TreeE]
      [] file_path = POuter -> [read |-> "ok", code |-> CodeOuter, tree |-> TreeOuter]
      [] file_path = PNest -> [read |-> "ok", code |-> CodeNest, tree |-> TreeNest]
      [] file_path = PDog -> [read |-> "ok", code |-> CodeDog, tree |-> TreeDog]
      [] file_path = PK -> [read |-> "ok", code |-> CodeK, tree |-> TreeK]
      [] file_path = PParams -> [read |-> "ok", code |-> CodeParams, tree |-> TreeParams]
      [] OTHER -> [read |-> "error"]

\* str.lower() on the symbols of a suffix
Lower(sym) ==
    CASE sym = ".PY" -> ".py"
      [] sym = ".JS" -> ".js"
      [] OTHER -> sym

\* Path(file_path).suffix
Suffix(file_path) ==
    IF Len(file_path) > 1
       /\ file_path[Len(file_path)] \in {".py", ".PY", ".js", ".JS", ".ts", ".jsx",
                                         ".jac", ".txt"}
    THEN file_path[Len(file_path)] ELSE ""

\* CodeParser.detect_language
detect_language(file_path) ==
    LET ext == Lower(Suffix(file_path)) IN
    CASE ext = ".py" -> "python"
      [] ext = ".js" -> "javascript"
      [] ext = ".ts" -> "javascript"
      [] ext = ".jsx" -> "javascript"
      [] ext = ".jac" -> "python"
      [] OTHER -> None

\* CodeParser.parse_file, with the parsers ps: None or <<the dict>>
parse_file(ps, file_path) ==
    LET language == detect_language(file_path) IN
    IF language = None \/ language \notin ps THEN <<>>
    ELSE IF Disk(file_path).read = "error" THEN <<>>
    ELSE <<[file_path |-> file_path,
            language |-> language,
            tree |-> Disk(file_path).tree,
            code |-> Disk(file_path).code,
            root_node |-> Disk(file_path).tree]>>

\* the text of the first child of node whose type is in types, "" if none
RECURSIVE FirstChildText(_, _, _, _)
FirstChildText(children, k, types, code) ==
    IF k > Len(children) THEN <<>>
    ELSE IF children[k].type \in types
         THEN Slice(code, children[k].start_byte, children[k].end_byte)
         ELSE FirstChildText(children, k + 1, types, code)

\* the first child of node whose type is type, as <<child>>, or <<>>
RECURSIVE FirstChild(_, _, _)
FirstChild(children, k, type) ==
    IF k > Len(children) THEN <<>>
    ELSE IF children[k].type = type THEN <<children[k]>>
    ELSE FirstChild(children, k + 1, type)

\* the texts of the children tagged identifier, in order
IdentifierChildren(node, code) ==
    LET ids == SelectSeq(node.children, LAMBDA c : c.type = "identifier")
    IN [i \in 1..Len(ids) |-> Slice(code, ids[i].start_byte, ids[i].end_byte)]

\* PythonAnalyzer._extract_params
extract_params(params_node, code) == IdentifierChildren(params_node, code)

\* PythonAnalyzer._extract_bases
extract_bases(arg_list_node, code) == IdentifierChildren(arg_list_node, code)

\* one call node's entry in calls: the text of its first identifier or
\* attribute child, if it has one
CallName(n, code) ==
    IF n.type = "call"
       /\ \E k \in 1..Len(n.children) : n.children[k].type \in {"identifier", "attribute"}
    THEN <<FirstChildText(n.children, 1, {"identifier", "attribute"}, code)>>
    ELSE <<>>

\* mutant of find_function_calls: the walk does not enter a function
\* definition nested in the node
RECURSIVE find_function_calls_shallow(_, _), find_calls_shallow_in(_, _, _)
find_function_calls_shallow(n, code) ==
    CallName(n, code) \o find_calls_shallow_in(n.children, 1, code)

find_calls_shallow_in(children, k, code) ==
    IF k > Len(children) THEN <<>>
    ELSE (IF children[k].type = "function_definition" THEN <<>>
          ELSE find_function_calls_shallow(children[k], code))
         \o find_calls_shallow_in(children, k + 1, code)

\* PythonAnalyzer._find_function_calls: traverse(n), then its children from the k-th
RECURSIVE find_function_calls(_, _), find_calls_in(_, _, _)
find_function_calls(n, code) ==
    CallName(n, code) \o find_calls_in(n.children, 1, code)

find_calls_in(children, k, code) ==
    IF k > Len(children) THEN <<>>
    ELSE find_function_calls(children[k], code) \o find_calls_in(children, k + 1, code)

\* mutant of extract_function: each call name is recorded once
extract_function_dedup(node, code) ==
    LET ps == FirstChild(node.children, 1, "parameters") IN
    [type |-> "function",
     name |-> FirstChildText(node.children, 1, {"identifier"}, code),
     params |-> IF ps = <<>> THEN <<>> ELSE extract_params(ps[1], code),
     line_start |-> node.start_row + 1,
     line_end |-> node.end_row + 1,
     calls |-> Dedup(find_function_calls(node, code))]

\* PythonAnalyzer._extract_function: the record appended to self.functions
extract_function(node, code) ==
    LET ps == FirstChild(node.children, 1, "parameters") IN
    [type |-> "function",
     name |-> FirstChildText(node.children, 1, {"identifier"}, code),
     params |-> IF ps = <<>> THEN <<>> ELSE extract_params(ps[1], code),
     line_start |-> node.start_row + 1,
     line_end |-> node.end_row + 1,
     calls |-> find_function_calls(node, code)]

\* the method records of one block child of a class
MethodsOfBlock(block, code) ==
    LET defs == SelectSeq(block.children, LAMBDA c : c.type = "function_definition")
    IN [i \in 1..Len(defs) |->
          [name |-> FirstChildText(defs[i].children, 1, {"identifier"}, code),
           line |-> defs[i].start_row + 1]]

\* PythonAnalyzer._extract_methods: over the children of the class from the k-th
RECURSIVE extract_methods_from(_, _, _)
extract_methods_from(children, k, code) ==
    IF k > Len(children) THEN <<>>
    ELSE (IF children[k].type = "block" THEN MethodsOfBlock(children[k], code) ELSE <<>>)
         \o extract_methods_from(children, k + 1, code)

\* mutant of extract_methods: every function definition below the class counts
extract_methods_deep(class_node, code) ==
    LET defs == SelectSeq(PreOrder(class_node),
                          LAMBDA c : c.type = "function_definition")
    IN [i \in 1..Len(defs) |->
          [name |-> FirstChildText(defs[i].children, 1, {"identifier"}, code),
           line |-> defs[i].start_row + 1]]

extract_methods(class_node, code) == extract_methods_from(class_node.children, 1, code)

\* PythonAnalyzer._extract_class: the record appended to self.classes
extract_class(node, code) ==
    LET al == FirstChild(node.children, 1, "argument_list") IN
    [type |-> "class",
     name |-> FirstChildText(node.children, 1, {"identifier"}, code),
     methods |-> extract_methods(node, code),
     bases |-> IF al = <<>> THEN <<>> ELSE extract_bases(al[1], code),
     line_start |-> node.start_row + 1,
     line_end |-> node.end_row + 1]

\* PythonAnalyzer._extract_import: the record appended to self.imports
extract_import(node, code) ==
    [type |-> "import",
     statement |-> Slice(code, node.start_byte, node.end_byte),
     line |-> node.start_row + 1]

\* mutant of traverse_node: the children of a class definition are not visited
RECURSIVE traverse_node_outside_classes(_, _, _), traverse_children_outside_classes(_, _, _, _)
traverse_node_outside_classes(node, code, a) ==
    LET a1 == IF node.type = "function_definition"
              THEN [a EXCEPT !.functions = Append(@, extract_function(node, code))]
              ELSE IF node.type = "class_definition"
              THEN [a EXCEPT !.classes = Append(@, extract_class(node, code))]
              ELSE IF node.type \in {"import_statement", "import_from_statement"}
              THEN [a EXCEPT !.imports = Append(@, extract_import(node, code))]
              ELSE a
    IN IF node.type = "class_definition" THEN a1
       ELSE traverse_children_outside_classes(node.children, 1, code, a1)

traverse_children_outside_classes(children, k, code, a) ==
    IF k > Len(children) THEN a
    ELSE LET a1 == traverse_node_outside_classes(children[k], code, a) IN
         IF Len(a1.functions) >= 0
         THEN traverse_children_outside_classes(children, k + 1, code, a1)
         ELSE a1

\* PythonAnalyzer._traverse_node; a is the analyzer's three lists so far
RECURSIVE traverse_node(_, _, _), traverse_children(_, _, _, _)
traverse_node(node, code, a) ==
    LET a1 == IF node.type = "function_definition"
              THEN [a EXCEPT !.functions = Append(@, extract_function(node, code))]
              ELSE IF node.type = "class_definition"
              THEN [a EXCEPT !.classes = Append(@, extract_class(node, code))]
              ELSE IF node.type \in {"import_statement", "import_from_statement"}
              THEN [a EXCEPT !.imports = Append(@, extract_import(node, code))]
              ELSE a
    IN traverse_children(node.children, 1, code, a1)

traverse_children(children, k, code, a) ==
    IF k > Len(children) THEN a
    ELSE LET a1 == traverse_node(children[k], code, a) IN
         \* the test is always true: it has TLC evaluate a1 before the next child
         IF Len(a1.functions) >= 0
         THEN traverse_children(children, k + 1, code, a1)
         ELSE a1

\* mutant of analyze: the three lists are not reset before the traversal
analyze_accumulating(a, parsed) ==
    IF parsed = <<>> \/ parsed[1].language # "python"
    THEN [self |-> a, result |-> EmptyDict]
    ELSE LET a1 == traverse_node(parsed[1].root_node, parsed[1].code, a)
         IN [self |-> a1,
             result |-> [functions |-> a1.functions,
                         classes |-> a1.classes,
                         imports |-> a1.imports,
                         file_path |-> parsed[1].file_path]]

\* PythonAnalyzer.analyze: the analyzer's lists after the call and the dict returned
analyze(a, parsed) ==
    IF parsed = <<>> \/ parsed[1].language # "python"
    THEN [self |-> a, result |-> EmptyDict]
    ELSE LET a1 == traverse_node(parsed[1].root_node, parsed[1].code,
                                 [functions |-> <<>>, classes |-> <<>>, imports |-> <<>>])
         IN [self |-> a1,
             result |-> [functions |-> a1.functions,
                         classes |-> a1.classes,
                         imports |-> a1.imports,
                         file_path |-> parsed[1].file_path]]

-----------------------------------------------------------------------------
(* CodeContextGraph.__init__ *)
Init ==
    /\ nodes = <<>>
    /\ edges = <<>>
    /\ file_map = EmptyDict
    /\ ret = [op |-> "__init__", arg |-> None, value |-> None]
    /\ exported = <<>>
    /\ log = <<>>
    /\ parsers = {"python", "javascript"}
    /\ analyzer = NoLists
    /\ batch = <<>>
    /\ pos = 0
    /\ heap = <<NoLists>>
    /\ results = <<>>

AddFileAnalysis(analysis) ==
    /\ Len(log) < MaxIngest
    /\ LET g == add_file_analysis(
                  [nodes |-> nodes, edges |-> edges, file_map |-> file_map,
                   raised |-> FALSE], analysis)
       IN /\ nodes' = g.nodes
          /\ edges' = g.edges
          /\ file_map' = g.file_map
          /\ ret' = [op |-> "add_file_analysis", arg |-> analysis,
                     value |-> IF g.raised THEN "KeyError" ELSE None]
          /\ log' = Append(log, [analysis |-> analysis,
                                 n0 |-> Len(nodes), n1 |-> Len(g.nodes),
                                 e0 |-> Len(edges), e1 |-> Len(g.edges),
                                 raised |-> g.raised])
    /\ UNCHANGED <<exported, pipeline>>

GetStatistics ==
    /\ ret' = [op |-> "get_statistics", arg |-> None,
               value |-> get_statistics(nodes, edges, file_map)]
    /\ UNCHANGED <<nodes, edges, file_map, exported, log, pipeline>>

FindCallers(function_name) ==
    /\ ret' = [op |-> "find_callers", arg |-> function_name,
               value |-> find_callers(edges, function_name)]
    /\ UNCHANGED <<nodes, edges, file_map, exported, log, pipeline>>

\* mutant of FindCallees: node.setdefault('calls', []) instead of
\* node.get('calls', []), which stores an empty list on a node without calls
FindCalleesSetDefault(function_name) ==
    LET M == {i \in 1..Len(nodes) : nodes[i].name = function_name} IN
    /\ ret' = [op |-> "find_callees", arg |-> function_name,
               value |-> find_callees(nodes, function_name)]
    /\ nodes' = IF M = {} THEN nodes
                ELSE LET first == CHOOSE i \in M : \A j \in M : i <= j IN
                     [nodes EXCEPT ![first] =
                        [key \in DOMAIN @ \cup {"calls"} |-> Get(@, key, <<>>)]]
    /\ UNCHANGED <<edges, file_map, exported, log, pipeline>>

FindCallees(function_name) ==
    /\ ret' = [op |-> "find_callees", arg |-> function_name,
               value |-> find_callees(nodes, function_name)]
    /\ UNCHANGED <<nodes, edges, file_map, exported, log, pipeline>>

ExportToDict ==
    /\ ret' = [op |-> "export_to_dict", arg |-> None,
               value |-> export_to_dict(nodes, edges, file_map)]
    /\ exported' = <<export_to_dict(nodes, edges, file_map)>>
    /\ UNCHANGED <<nodes, edges, file_map, log, pipeline>>

Next ==
    \/ \E analysis \in Analyses : AddFileAnalysis(analysis)
    \/ GetStatistics
    \/ \E function_name \in Names : FindCallers(function_name)
    \/ \E function_name \in Names : FindCallees(function_name)
    \/ ExportToDict

Spec == Init /\ [][Next]_vars

-----------------------------------------------------------------------------
(* Helpers of the properties *)

Range(s) == {s[i] : i \in 1..Len(s)}

IsPrefix(s, t) == Len(s) <= Len(t) /\ SubSeq(t, 1, Len(s)) = s

\* how often x occurs in the sequence s
Occurrences(s, x) == Cardinality({i \in 1..Len(s) : s[i] = x})

QueryOps == {"get_statistics", "find_callers", "find_callees", "export_to_dict"}

\* the file path the c-th add_file_analysis call used
LogPath(c) == Get(log[c].analysis, "file_path", Unknown)

-----------------------------------------------------------------------------
\* C1: after any sequence of add_file_analysis calls, get_statistics() gives
\* total_nodes == functions + classes (for the graph as it is, and in the dict
\* a get_statistics call returned).
TotalNodesIsFunctionsPlusClasses ==
    LET s == get_statistics(nodes, edges, file_map) IN
    /\ s.total_nodes = s.functions + s.classes
    /\ ret.op = "get_statistics" =>
          ret.value.total_nodes = ret.value.functions + ret.value.classes

\* C1 witness: get_statistics has returned for a graph with functions and classes
StatisticsOfMixedGraph ==
    /\ ret.op = "get_statistics"
    /\ ret.value.functions >= 2
    /\ ret.value.classes >= 1

\* C2: no two entries of nodes have the same id.
NodeIdsUnique ==
    \A i, j \in 1..Len(nodes) : nodes[i].id = nodes[j].id => i = j

\* C3: a second add_file_analysis call with the same analysis appends the same
\* nodes and edges again, after the ones of the first call, which stay in place.
ReingestAppendsAgain ==
    \A i, j \in 1..Len(log) :
        (i < j /\ log[i].analysis = log[j].analysis) =>
            /\ log[j].n1 - log[j].n0 = log[i].n1 - log[i].n0
            /\ log[j].e1 - log[j].e0 = log[i].e1 - log[i].e0
            /\ log[i].n1 <= log[j].n0 /\ log[j].n1 <= Len(nodes)
            /\ log[i].e1 <= log[j].e0 /\ log[j].e1 <= Len(edges)
            /\ SubSeq(nodes, log[j].n0 + 1, log[j].n1)
                 = SubSeq(nodes, log[i].n0 + 1, log[i].n1)
            /\ SubSeq(edges, log[j].e0 + 1, log[j].e1)
                 = SubSeq(edges, log[i].e0 + 1, log[i].e1)

\* C3 witness: the same analysis, with nodes and edges, was ingested twice
SameAnalysisIngestedTwice ==
    \E i, j \in 1..Len(log) :
        /\ i < j /\ log[i].analysis = log[j].analysis
        /\ log[i].n1 > log[i].n0 /\ log[i].e1 > log[i].e0
        /\ Len(nodes) = 2 * (log[i].n1 - log[i].n0)

\* C4: every edge's 'from' is the id of a node of the same file that the same
\* add_file_analysis call appended.
EdgeFromIsNodeOfSameCall ==
    \A k \in 1..Len(edges) :
        \E i \in 1..Len(nodes), c \in 1..Len(log) :
            /\ nodes[i].id = edges[k].from
            /\ nodes[i].file = edges[k].file
            /\ log[c].n0 < i /\ i <= log[c].n1
            /\ log[c].e0 < k /\ k <= log[c].e1

\* C4 witness: an edge whose 'to' is neither the id nor the name of any node
DanglingEdgeTarget ==
    \E k \in 1..Len(edges) :
        \A i \in 1..Len(nodes) :
            nodes[i].id # edges[k].to /\ nodes[i].name # edges[k].to

\* C5: find_callers(x) returns exactly the 'from' ids of the 'calls' edges whose
\* 'to' equals x, each as often as there are such edges; and every function
\* node is among the callers of each of its call targets.
FindCallersExact ==
    /\ ret.op = "find_callers" =>
          \A id \in Range(ret.value) \cup {edges[k].from : k \in 1..Len(edges)} :
              Occurrences(ret.value, id) =
                  Cardinality({k \in 1..Len(edges) :
                      /\ edges[k].type = "calls"
                      /\ edges[k].to = ret.arg
                      /\ edges[k].from = id})
    /\ \A i \in 1..Len(nodes) :
          nodes[i].type = "function" =>
              \A target \in Range(nodes[i].calls) :
                  nodes[i].id \in Range(find_callers(edges, target))

\* C5 witness: find_callers(x) returned callers while an 'inherits' edge to x
\* and a 'calls' edge to a longer name starting with x exist
FindCallersAmongOtherEdges ==
    /\ ret.op = "find_callers"
    /\ ret.value # <<>>
    /\ \E k \in 1..Len(edges) : edges[k].type = "inherits" /\ edges[k].to = ret.arg
    /\ \E k \in 1..Len(edges) :
          /\ edges[k].type = "calls"
          /\ edges[k].to # ret.arg
          /\ IsPrefix(ret.arg, edges[k].to)

\* C6: find_callees(name) returns the calls of the first node named name (the
\* empty list if that node stores none), and the empty list if there is none.
FindCalleesFirstMatch ==
    ret.op = "find_callees" =>
        LET M == {i \in 1..Len(nodes) : nodes[i].name = ret.arg} IN
        IF M = {} THEN ret.value = <<>>
        ELSE LET first == CHOOSE i \in M : \A j \in M : i <= j IN
             ret.value = IF "calls" \in DOMAIN nodes[first]
                         THEN nodes[first].calls ELSE <<>>

\* C6 witness: find_callees(name) returned for a name that a class node and a
\* later function node with calls share
FindCalleesShadowed ==
    /\ ret.op = "find_callees"
    /\ \E i, j \in 1..Len(nodes) :
          /\ i < j
          /\ nodes[i].name = ret.arg /\ nodes[j].name = ret.arg
          /\ nodes[i].type = "class" /\ nodes[j].type = "function"
          /\ nodes[j].calls # <<>>
          /\ \A h \in 1..(i - 1) : nodes[h].name # ret.arg
    /\ ret.value = <<>>

\* the nodes of an earlier call precede those of a later one, and each call's
\* nodes carry the file path of that call
OrderedByIngestion ==
    /\ \A c, d \in 1..Len(log) : c < d => log[c].n1 <= log[d].n0
    /\ \A c \in 1..Len(log) :
          /\ log[c].n1 <= Len(nodes)
          /\ \A i \in (log[c].n0 + 1)..log[c].n1 : nodes[i].file = LogPath(c)
    /\ \A i \in 1..Len(nodes) :
          \E c \in 1..Len(log) : log[c].n0 < i /\ i <= log[c].n1

\* C7: every step keeps the earlier nodes and edges in place as a prefix, and
\* nodes stay ordered by ingestion.
AppendOnly ==
    [][/\ IsPrefix(nodes, nodes')
       /\ IsPrefix(edges, edges')
       /\ OrderedByIngestion']_vars

\* C7 witness: two files ingested one after the other, each with nodes and edges
TwoFilesIngested ==
    /\ Len(log) = 2
    /\ LogPath(1) # LogPath(2)
    /\ log[1].n1 > 0 /\ log[2].n1 > log[2].n0
    /\ log[1].e1 > 0 /\ log[2].e1 > log[2].e0

\* C8: a step of get_statistics, find_callers, find_callees or export_to_dict
\* leaves nodes, edges and file_map unchanged.
QueriesAreReadOnly ==
    [][ret'.op \in QueryOps => graph' = graph]_vars

\* C8 witness: each kind of query can return on a graph that is not empty
QueryOnFilledGraph ==
    /\ ret.op = "find_callees"
    /\ ret.value # <<>>
    /\ exported # <<>>
    /\ Len(edges) > 3

\* C9: an export returned earlier is a snapshot: its statistics agree with its
\* own nodes, edges and file_map, also after later add_file_analysis calls.
ExportIsSnapshot ==
    exported # <<>> =>
        LET e == exported[1] IN
        e.statistics =
            get_statistics(Deref(e.nodes), Deref(e.edges), Deref(e.file_map))

-----------------------------------------------------------------------------
(* A batch run: each file of the list goes through parse_file, analyze and   *)
(* add_file_analysis, in the order of the list.                              *)

RECURSIVE SeqsUpTo(_, _)
SeqsUpTo(S, n) ==
    IF n = 0 THEN {<<>>}
    ELSE LET shorter == SeqsUpTo(S, n - 1) IN
         shorter \cup {Append(s, x) : s \in {t \in shorter : Len(t) = n - 1}, x \in S}

EmptyGraph == [nodes |-> <<>>, edges |-> <<>>, file_map |-> EmptyDict, raised |-> FALSE]

\* CodeParser.__init__ : each of the two parsers is there unless its setup raised
InitBatch ==
    /\ nodes = <<>>
    /\ edges = <<>>
    /\ file_map = EmptyDict
    /\ ret = [op |-> "__init__", arg |-> None, value |-> None]
    /\ exported = <<>>
    /\ log = <<>>
    /\ parsers \in SUBSET {"python", "javascript"}
    /\ analyzer = NoLists
    /\ batch \in SeqsUpTo(BatchPaths, MaxBatch)
    /\ pos = 0
    /\ heap = <<NoLists>>
    /\ results = <<>>

\* one file of the batch: parse_file -> analyze -> add_file_analysis
BatchStep ==
    /\ pos < Len(batch)
    /\ LET file_path == batch[pos + 1]
           parsed == parse_file(parsers, file_path)
           an == analyze(analyzer, parsed)
           g == add_file_analysis(
                  [nodes |-> nodes, edges |-> edges, file_map |-> file_map,
                   raised |-> FALSE], an.result)
       IN /\ analyzer' = an.self
          /\ heap' = IF an.result = EmptyDict THEN heap ELSE Append(heap, an.self)
          /\ nodes' = g.nodes
          /\ edges' = g.edges
          /\ file_map' = g.file_map
          /\ ret' = [op |-> "add_file_analysis", arg |-> an.result,
                     value |-> IF g.raised THEN "KeyError" ELSE None]
          /\ log' = Append(log, [analysis |-> an.result,
                                 n0 |-> Len(nodes), n1 |-> Len(g.nodes),
                                 e0 |-> Len(edges), e1 |-> Len(g.edges),
                                 raised |-> g.raised])
    /\ pos' = pos + 1
    /\ UNCHANGED <<exported, parsers, batch, results>>

\* get_statistics() after the batch
BatchStatistics ==
    /\ pos = Len(batch)
    /\ ret' = [op |-> "get_statistics", arg |-> None,
               value |-> get_statistics(nodes, edges, file_map)]
    /\ UNCHANGED <<nodes, edges, file_map, exported, log, pipeline>>

NextBatch == BatchStep \/ BatchStatistics

BatchSpec == InitBatch /\ [][NextBatch]_vars

\* the graph a whole batch run over the paths leaves, from the k-th path on
RECURSIVE RunBatch(_, _, _, _)
RunBatch(ps, paths, k, g) ==
    IF k > Len(paths) THEN g
    ELSE RunBatch(ps, paths, k + 1,
                  add_file_analysis(g, analyze(analyzer, parse_file(ps, paths[k])).result))

-----------------------------------------------------------------------------
(* A CodeParser and the parse_file calls made on it.                         *)

Languages == {"python", "javascript"}

ParserPaths ==
    BatchPaths \cup {<<"g", ".ts">>, <<"g", ".jsx">>, <<"g", ".jac">>,
                     <<"k", ".JS">>, <<"noext">>}

\* CodeParser.__init__ : a language has a parser unless its setup raised
InitParser ==
    /\ nodes = <<>>
    /\ edges = <<>>
    /\ file_map = EmptyDict
    /\ ret = [op |-> "__init__", arg |-> None, value |-> None]
    /\ exported = <<>>
    /\ log = <<>>
    /\ parsers \in SUBSET Languages
    /\ analyzer = NoLists
    /\ batch = <<>>
    /\ pos = 0
    /\ heap = <<NoLists>>
    /\ results = <<>>

\* mutant of ParseFile: a missing parser is set up when a file needs it
ParseFileLazyInit(file_path) ==
    LET language == detect_language(file_path)
        ps == IF language = None THEN parsers ELSE parsers \cup {language}
    IN /\ Len(log) < MaxParse
       /\ parsers' = ps
       /\ ret' = [op |-> "parse_file", arg |-> file_path,
                  value |-> parse_file(ps, file_path)]
       /\ log' = Append(log, file_path)
       /\ UNCHANGED <<nodes, edges, file_map, exported, analyzer, batch, pos,
                       heap, results>>

\* CodeParser.parse_file(file_path); log keeps the paths of the calls so far
ParseFile(file_path) ==
    /\ Len(log) < MaxParse
    /\ ret' = [op |-> "parse_file", arg |-> file_path,
               value |-> parse_file(parsers, file_path)]
    /\ log' = Append(log, file_path)
    /\ UNCHANGED <<nodes, edges, file_map, exported, pipeline>>

NextParser == \E file_path \in ParserPaths : ParseFile(file_path)

ParserSpec == InitParser /\ [][NextParser]_vars

\* the language of the fixed extension map for a lower-cased suffix, or None
MappedLanguage(ext) ==
    IF ext \in {".py", ".jac"} THEN "python"
    ELSE IF ext \in {".js", ".ts", ".jsx"} THEN "javascript"
    ELSE None

\* C11: parse_file returns None for a path whose extension is not in the map
\* and for a path of a language without a parser, and no step gives a parser
\* to a language that has none.
ParseFileNoneAndNoRetry ==
    [][/\ \A l \in Languages : l \notin parsers => l \notin parsers'
       /\ ret'.op = "parse_file" =>
            LET language == MappedLanguage(Lower(Suffix(ret'.arg))) IN
            (language = None \/ language \notin parsers) => ret'.value = <<>>]_vars

\* C11 witness: the second parse_file call for a language whose parser is
\* missing has returned None, after a call for a path with no mapped extension
SecondCallStillNone ==
    /\ Len(log) = 2
    /\ MappedLanguage(Lower(Suffix(log[1]))) = None
    /\ ret.op = "parse_file"
    /\ ret.arg = PA
    /\ "python" \notin parsers
    /\ "javascript" \in parsers
    /\ ret.value = <<>>

-----------------------------------------------------------------------------
(* A PythonAnalyzer and the analyze calls made on it, each on the result of  *)
(* parse_file for one file.                                                  *)

ExtractPaths == {PA, PC, PE, POuter, PNest, PDog, PK, PParams}

\* CodeParser.__init__ (both parsers set up) and PythonAnalyzer.__init__
InitExtract ==
    /\ nodes = <<>>
    /\ edges = <<>>
    /\ file_map = EmptyDict
    /\ ret = [op |-> "__init__", arg |-> None, value |-> None]
    /\ exported = <<>>
    /\ log = <<>>
    /\ parsers = Languages
    /\ analyzer = NoLists
    /\ batch = <<>>
    /\ pos = 0
    /\ heap = <<NoLists>>
    /\ results = <<>>

\* analyzer.analyze(parser.parse_file(file_path)).  When the guard lets the
\* call through, self.functions, self.classes and self.imports are bound to
\* new lists (a new heap entry), which the traversal fills and the returned
\* dict refers to; ref 0 is the dict {} without lists.
Analyze(file_path) ==
    /\ Len(results) < MaxAnalyze
    /\ LET an == analyze(analyzer, parse_file(parsers, file_path)) IN
       /\ analyzer' = an.self
       /\ ret' = [op |-> "analyze", arg |-> file_path, value |-> an.result]
       /\ IF an.result = EmptyDict
          THEN /\ heap' = heap
               /\ results' = Append(results, [input |-> file_path, ref |-> 0])
          ELSE /\ heap' = Append(heap, an.self)
               /\ results' = Append(results, [input |-> file_path,
                                              ref |-> Len(heap) + 1])
    /\ UNCHANGED <<nodes, edges, file_map, exported, log, parsers, batch, pos>>

NextExtract == \E file_path \in ExtractPaths : Analyze(file_path)

ExtractSpec == InitExtract /\ [][NextExtract]_vars

\* the dict that the k-th analyze call returned, as it reads now
ResultNow(k) ==
    IF results[k].ref = 0 THEN EmptyDict
    ELSE [functions |-> heap[results[k].ref].functions,
          classes |-> heap[results[k].ref].classes,
          imports |-> heap[results[k].ref].imports,
          file_path |-> results[k].input]

-----------------------------------------------------------------------------
(* Helpers of the extraction properties, read off the tree alone *)

\* the function definitions of a tree, in document order
FunctionDefs(tree) ==
    SelectSeq(PreOrder(tree), LAMBDA n : n.type = "function_definition")

\* the class definitions of a tree, in document order
ClassDefs(tree) ==
    SelectSeq(PreOrder(tree), LAMBDA n : n.type = "class_definition")

\* node g lies inside node f
Inside(g, f) ==
    /\ g # f
    /\ f.start_byte <= g.start_byte
    /\ g.end_byte <= f.end_byte

\* the text of a node
TextOf(n, code) == Slice(code, n.start_byte, n.end_byte)

\* the text of the first child of n tagged identifier, the empty text if none
DeclaredName(n, code) ==
    LET ids == SelectSeq(n.children, LAMBDA c : c.type = "identifier") IN
    IF ids = <<>> THEN <<>> ELSE TextOf(ids[1], code)

\* the recorded name of each call node below n, in document order
CallsBelow(n, code) ==
    LET heads(c) == SelectSeq(c.children,
                              LAMBDA x : x.type \in {"identifier", "attribute"})
        cs == SelectSeq(PreOrder(n), LAMBDA c : c.type = "call" /\ heads(c) # <<>>)
    IN [i \in 1..Len(cs) |-> TextOf(heads(cs[i])[1], code)]

\* s can be obtained from t by leaving elements out
RECURSIVE IsSubsequence(_, _)
IsSubsequence(s, t) ==
    IF s = <<>> THEN TRUE
    ELSE IF t = <<>> THEN FALSE
    ELSE IF Head(s) = Head(t) THEN IsSubsequence(Tail(s), Tail(t))
    ELSE IsSubsequence(s, Tail(t))

\* an analyze call has just returned the extraction of a Python file
Extracted == ret.op = "analyze" /\ ret.value # EmptyDict

\* C12 (as claimed): for foo(a, b) calling bar and baz, defined inside outer,
\* which calls foo, the records are outer with calls [foo] and foo with calls
\* [bar, baz].
OuterCallsOnlyFoo ==
    (Extracted /\ ret.arg = POuter) =>
        LET fs == ret.value.functions IN
        /\ NamesOf(fs) = << <<"outer">>, <<"foo">> >>
        /\ fs[1].calls = << <<"foo">> >>
        /\ fs[2].calls = << <<"bar">>, <<"baz">> >>

\* C12 (amended): the records are outer and foo; foo has calls [bar, baz] and
\* outer has the calls of its whole subtree in document order, [bar, baz, foo].
OuterCallsWholeSubtree ==
    (Extracted /\ ret.arg = POuter) =>
        LET fs == ret.value.functions IN
        /\ NamesOf(fs) = << <<"outer">>, <<"foo">> >>
        /\ fs[1].calls = << <<"bar">>, <<"baz">>, <<"foo">> >>
        /\ fs[2].calls = << <<"bar">>, <<"baz">> >>
        /\ fs[2].params = << <<"a">>, <<"b">> >>

\* C12 witness: the outer/foo file has been analysed, after another file
OuterFileAnalysed ==
    /\ Extracted
    /\ ret.arg = POuter
    /\ Len(results) = 2
    /\ results[1].input = PDog

\* C13: there is one record per function definition, in document order, and
\* for a definition g inside a definition f the calls of g are found again
\* among the calls of f, in the same order and as often; each record holds
\* one name per call node below its definition.
NestedCallsCountedTwice ==
    Extracted =>
        LET code == Disk(ret.arg).code
            defs == FunctionDefs(Disk(ret.arg).tree)
            fs == ret.value.functions
        IN /\ Len(fs) = Len(defs)
           /\ \A i \in 1..Len(defs) :
                 /\ fs[i].name = DeclaredName(defs[i], code)
                 /\ fs[i].line_start = defs[i].start_row + 1
                 /\ fs[i].calls = CallsBelow(defs[i], code)
           /\ \A i, j \in 1..Len(defs) :
                 Inside(defs[j], defs[i]) =>
                     /\ i # j
                     /\ IsSubsequence(fs[j].calls, fs[i].calls)
                     /\ Len(fs[i].calls) >= Len(fs[j].calls)

\* C13 witness: a file with definitions nested two deep and a repeated call
TwoLevelsOfNesting ==
    /\ Extracted
    /\ \E i, j, k \in 1..Len(FunctionDefs(Disk(ret.arg).tree)) :
          LET defs == FunctionDefs(Disk(ret.arg).tree) IN
          /\ Inside(defs[j], defs[i])
          /\ Inside(defs[k], defs[j])
          /\ Len(ret.value.functions[k].calls) = 2
          /\ Len(Dedup(ret.value.functions[k].calls)) = 1
          /\ Len(ret.value.functions[i].calls) = 4

\* the function definitions that are children of a block child of class c
DirectMethodDefs(c) ==
    SelectSeq(PreOrder(c),
              LAMBDA d : /\ d.type = "function_definition"
                         /\ \E i \in 1..Len(c.children) :
                               /\ c.children[i].type = "block"
                               /\ \E j \in 1..Len(c.children[i].children) :
                                     c.children[i].children[j] = d)

\* C14: the methods of a class record are the function definitions that are
\* direct children of the class's body block, in source order, each with its
\* name and 1-based start line; class Dog(Animal) with the method bark has
\* bases [Animal] and methods [bark].
MethodsAreDirectChildren ==
    Extracted =>
        LET code == Disk(ret.arg).code
            cdefs == ClassDefs(Disk(ret.arg).tree)
            cs == ret.value.classes
        IN /\ Len(cs) = Len(cdefs)
           /\ \A k \in 1..Len(cdefs) :
                 LET ms == DirectMethodDefs(cdefs[k]) IN
                 /\ cs[k].name = DeclaredName(cdefs[k], code)
                 /\ cs[k].methods =
                       [i \in 1..Len(ms) |->
                          [name |-> DeclaredName(ms[i], code),
                           line |-> ms[i].start_row + 1]]
           /\ ret.arg = PDog =>
                 /\ Len(cs) = 1
                 /\ cs[1].bases = << <<"Animal">> >>
                 /\ NamesOf(cs[1].methods) = << <<"bark">> >>

\* C14 witness: a class with direct methods and with function definitions
\* inside an if, a decorator and a nested class has been analysed
ClassWithWrappedDefinitions ==
    /\ Extracted
    /\ \E k \in 1..Len(ClassDefs(Disk(ret.arg).tree)) :
          LET c == ClassDefs(Disk(ret.arg).tree)[k]
              below == SelectSeq(FunctionDefs(Disk(ret.arg).tree),
                                 LAMBDA d : Inside(d, c))
          IN /\ Len(ret.value.classes[k].methods) = 2
             /\ Len(below) = 5
             /\ \E n \in Range(PreOrder(c)) : n.type = "decorated_definition"
             /\ \E n \in Range(PreOrder(c)) : n.type = "if_statement"

\* C15: the params of a function record are the texts of all nodes tagged
\* identifier below the parameters child, at any depth, in source order.
ParamsAreIdentifierDescendants ==
    Extracted =>
        LET code == Disk(ret.arg).code
            defs == FunctionDefs(Disk(ret.arg).tree)
            fs == ret.value.functions
        IN \A i \in 1..Len(defs) :
              LET ps == SelectSeq(defs[i].children, LAMBDA c : c.type = "parameters")
                  ids == IF ps = <<>> THEN <<>>
                         ELSE SelectSeq(PreOrder(ps[1]),
                                        LAMBDA n : n.type = "identifier")
              IN fs[i].params = [j \in 1..Len(ids) |-> TextOf(ids[j], code)]

\* C18: the dict of every analyze call so far reads now as the dict that a new
\* analyzer returns for that file alone.
AnalyzeIsIndependent ==
    \A k \in 1..Len(results) :
        ResultNow(k) = analyze(NoLists, parse_file(parsers, results[k].input)).result

\* C18 witness: three files analysed by one analyzer, the second one rejected
ThreeFilesOneAnalyzer ==
    /\ Len(results) = 3
    /\ results[1].ref # 0 /\ results[2].ref = 0 /\ results[3].ref # 0
    /\ results[1].input # results[3].input
    /\ ResultNow(1).functions # <<>>
    /\ ResultNow(3).classes # <<>>

-----------------------------------------------------------------------------
(* Ingestion that raises, and the file index *)

\* C16: a call of add_file_analysis that raises leaves nodes, edges and
\* file_map as they were before the call.
RaisingCallChangesNothing ==
    [][(Len(log') > Len(log) /\ log'[Len(log')].raised)
          => UNCHANGED <<nodes, edges, file_map>>]_vars

\* the file paths of the add_file_analysis calls made so far
IngestedPaths == {LogPath(c) : c \in 1..Len(log)}

\* C17: files_analyzed is the number of distinct file paths ingested so far.
FilesAnalyzedCountsIngestedPaths ==
    ret.op = "get_statistics" =>
        ret.value.files_analyzed = Cardinality(IngestedPaths)

\* the names of the nodes of type t whose file is p, in insertion order
NodeNamesOf(p, t) ==
    NamesOf(SelectSeq(nodes, LAMBDA n : n.file = p /\ n.type = t))

\* C20 (as claimed): for every path p of file_map, file_map[p] lists the names
\* of the function nodes and of the class nodes whose file is p.
FileMapAgreesWithNodes ==
    \A p \in DOMAIN file_map :
        /\ file_map[p].functions = NodeNamesOf(p, "function")
        /\ file_map[p].classes = NodeNamesOf(p, "class")

\* the calls for path p that returned
ReturnedCallsFor(p) ==
    {c \in 1..Len(log) : LogPath(c) = p /\ ~log[c].raised}

\* the names of the nodes of type t appended by the c-th call
NamesAppendedBy(c, t) ==
    NamesOf(SelectSeq(SubSeq(nodes, log[c].n0 + 1, log[c].n1),
                      LAMBDA n : n.type = t))

\* C20 (amended): the paths of file_map are those of the calls that returned,
\* and file_map[p] lists the names of the function nodes and of the class
\* nodes appended by the last call for p that returned.
FileMapIsLastIngestion ==
    /\ DOMAIN file_map = {p \in IngestedPaths : ReturnedCallsFor(p) # {}}
    /\ \A p \in DOMAIN file_map :
          LET last == CHOOSE c \in ReturnedCallsFor(p) :
                          \A d \in ReturnedCallsFor(p) : d <= c
          IN /\ file_map[p].functions = NamesAppendedBy(last, "function")
             /\ file_map[p].classes = NamesAppendedBy(last, "class")
             /\ \A n \in Range(SubSeq(nodes, log[last].n0 + 1, log[last].n1)) :
                   n.file = p

\* C20 witness: one path ingested twice with different extractions, both
\* calls returning, so that the nodes of the path outnumber its index entry
PathIngestedTwiceDifferently ==
    /\ Len(log) = 2
    /\ LogPath(1) = LogPath(2)
    /\ ~log[1].raised /\ ~log[2].raised
    /\ log[1].analysis # log[2].analysis
    /\ file_map[LogPath(1)].functions # <<>>
    /\ Len(NodeNamesOf(LogPath(1), "function")) > Len(file_map[LogPath(1)].functions)

-----------------------------------------------------------------------------
(* MarkdownGenerator._generate_relationship_diagram *)

\* nodes[:15]
NodeLimit == 15

\* edge_count < 20
EdgeLimit == 20

\* the free part of the node lists and of the edge lists handed to the diagram
MaxDiagramNodes == 2
MaxDiagramEdges == 2

Min(S) == CHOOSE x \in S : \A y \in S : x <= y
Max(S) == CHOOSE x \in S : \A y \in S : y <= x

\* f"N{i}"
NId(i) == <<"N", i>>

\* Python's "sub in s" on strings
Contains(sub, s) ==
    \E i \in 0..(Len(s) - Len(sub)) : SubSeq(s, i + 1, i + Len(sub)) = sub

\* to.split('.')[-1]
LastPart(to) ==
    LET dots == {i \in 1..Len(to) : to[i] = "."} IN
    IF dots = {} THEN to ELSE SubSeq(to, Max(dots) + 1, Len(to))

\* a dict as the sequence of its items, in insertion order: d[key] = value
DictSet(d, key, value) ==
    IF \E i \in 1..Len(d) : d[i].key = key
    THEN [i \in 1..Len(d) |->
            IF d[i].key = key THEN [key |-> key, value |-> value] ELSE d[i]]
    ELSE Append(d, [key |-> key, value |-> value])

\* key in d
HasKey(d, key) == \E i \in 1..Len(d) : d[i].key = key

\* d[key]
DictGet(d, key) == d[CHOOSE i \in 1..Len(d) : d[i].key = key].value

\* the loop "for i, node in enumerate(nodes[:15])", from the k-th node on
RECURSIVE NodeDict(_, _, _)
NodeDict(ns, k, d) ==
    IF k > Len(ns) \/ k > NodeLimit THEN d
    ELSE LET d1 == DictSet(d, ns[k].id, NId(k - 1)) IN
         IF Len(d1) >= 0 THEN NodeDict(ns, k + 1, d1) ELSE d1

\* the loop "for nid, full_id in node_dict.items()": to_id, <<>> for None
FirstMatch(d, to_name) ==
    LET hits == {i \in 1..Len(d) : Contains(to_name, d[i].key)} IN
    IF hits = {} THEN <<>> ELSE <<d[Min(hits)].value>>

\* the loop "for edge in edges", from the k-th edge on; drawn holds the edge
\* lines written so far, each with the position of its edge in edges
RECURSIVE DrawEdges(_, _, _, _)
DrawEdges(es, k, d, drawn) ==
    IF k > Len(es) THEN drawn
    ELSE LET edge == es[k]
             to_id == FirstMatch(d, LastPart(edge.to))
             line == [from_id |-> DictGet(d, edge.from),
                      arrow |-> IF edge.type = "inherits" THEN "inherits" ELSE "calls",
                      to_id |-> to_id[1],
                      edge |-> k]
             drawn1 == IF /\ HasKey(d, edge.from)
                          /\ Len(drawn) < EdgeLimit
                          /\ to_id # <<>>
                       THEN Append(drawn, line)
                       ELSE drawn
         IN IF Len(drawn1) >= 0 THEN DrawEdges(es, k + 1, d, drawn1) ELSE drawn1

\* the section written for ccg_data = {'nodes': ns, 'edges': es}
generate_relationship_diagram(ns, es) ==
    IF es = <<>> \/ ns = <<>>
    THEN [empty |-> TRUE, declared |-> <<>>, drawn |-> <<>>, note |-> FALSE]
    ELSE [empty |-> FALSE,
          declared |-> [i \in 1..Min({Len(ns), NodeLimit}) |->
                           [node_id |-> NId(i - 1), label |-> ns[i].name]],
          drawn |-> DrawEdges(es, 1, NodeDict(ns, 1, <<>>), <<>>),
          note |-> Len(es) > EdgeLimit]

\* nodes as add_file_analysis builds them; the class f of a.py has the id of
\* the function f of a.py
DiagramNodes ==
    {FunctionNode(PA, FuncRec(F, <<>>)),
     ClassNode(PA, ClassRec(F, <<>>)),
     FunctionNode(PA, FuncRec(FG, <<>>)),
     FunctionNode(PB, FuncRec(H, <<>>))}

\* k further nodes with ids of their own, in front of the others
PadNames ==
    << <<"x1">>, <<"x2">>, <<"x3">>, <<"x4">>, <<"x5">>, <<"x6">>, <<"x7">>,
       <<"x8">>, <<"x9">>, <<"x10">>, <<"x11">>, <<"x12">>, <<"x13">>, <<"x14">> >>

Padding(k) == [i \in 1..k |-> FunctionNode(PC, FuncRec(PadNames[i], <<>>))]

\* the paddings that put the free nodes before, at and after the 15th place
Paddings == {0, NodeLimit - MaxDiagramNodes, NodeLimit - 1}

\* edges as add_file_analysis builds them: exact, dotted, partial and unknown targets
DiagramEdges ==
    {[from |-> NodeId(PA, F), to |-> F, type |-> "calls", file |-> PA],
     [from |-> NodeId(PA, FG), to |-> <<"h", ".", "f">>, type |-> "calls", file |-> PA],
     [from |-> NodeId(PB, H), to |-> <<"g">>, type |-> "inherits", file |-> PB],
     [from |-> NodeId(PA, FG), to |-> <<"k">>, type |-> "calls", file |-> PA],
     [from |-> NodeId(PB, H), to |-> <<"f", ".">>, type |-> "calls", file |-> PB]}

Repeat(e, n) == [i \in 1..n |-> e]

\* edge lists around the limit of 20 drawn edges
LongEdgeLists ==
    LET self == [from |-> NodeId(PA, F), to |-> F, type |-> "calls", file |-> PA]
        unknown == [from |-> NodeId(PA, FG), to |-> <<"k">>, type |-> "calls", file |-> PA]
        other == [from |-> NodeId(PB, H), to |-> H, type |-> "calls", file |-> PB]
    IN {Repeat(self, EdgeLimit),
        Append(Repeat(self, EdgeLimit), other),
        <<unknown>> \o Repeat(self, EdgeLimit) \o <<other>>,
        Repeat(unknown, EdgeLimit) \o <<other>>}

InitDiagram ==
    /\ \E k \in Paddings : \E free \in SeqsUpTo(DiagramNodes, MaxDiagramNodes) :
          nodes = Padding(k) \o free
    /\ edges \in SeqsUpTo(DiagramEdges, MaxDiagramEdges) \cup LongEdgeLists
    /\ file_map = EmptyDict
    /\ ret = [op |-> "__init__", arg |-> None, value |-> None]
    /\ exported = <<>>
    /\ log = <<>>
    /\ parsers = {"python", "javascript"}
    /\ analyzer = NoLists
    /\ batch = <<>>
    /\ pos = 0
    /\ heap = <<NoLists>>
    /\ results = <<>>

GenerateRelationshipDiagram ==
    /\ ret.op # "_generate_relationship_diagram"
    /\ ret' = [op |-> "_generate_relationship_diagram", arg |-> None,
               value |-> generate_relationship_diagram(nodes, edges)]
    /\ UNCHANGED <<graph, exported, log, pipeline>>

NextDiagram == GenerateRelationshipDiagram

DiagramSpec == InitDiagram /\ [][NextDiagram]_vars

\* the places among the first 15 nodes whose id contains the last part of to
MatchingPlaces(to) ==
    {i \in 1..Min({Len(nodes), NodeLimit}) : Contains(LastPart(to), nodes[i].id)}

\* the diagram has been generated and is not the empty one
Drawn == ret.op = "_generate_relationship_diagram" /\ ~ret.value.empty

\* C19: every drawn edge starts at the id of one of the first 15 nodes and
\* ends at the first of those nodes whose id contains the part of its 'to'
\* after the last '.'; an edge without such a node is not drawn; at most 20
\* edges are drawn.
DrawnEdgeEndsAtFirstMatchingNode ==
    Drawn =>
        LET drawn == ret.value.drawn IN
        /\ Len(drawn) <= EdgeLimit
        /\ \A i \in 1..Len(drawn) :
              LET e == edges[drawn[i].edge] IN
              /\ \E k \in 1..Min({Len(nodes), NodeLimit}) : nodes[k].id = e.from
              /\ MatchingPlaces(e.to) # {}
              /\ drawn[i].to_id = NId(Min(MatchingPlaces(e.to)) - 1)
        /\ \A k \in 1..Len(edges) :
              MatchingPlaces(edges[k].to) = {} =>
                  \A i \in 1..Len(drawn) : drawn[i].edge # k

-----------------------------------------------------------------------------
(* Edges against the call and base lists of the nodes *)

\* the number of call names of the function nodes of ns plus the number of
\* base names of its class nodes
RECURSIVE RecordedTargets(_)
RecordedTargets(ns) ==
    IF ns = <<>> THEN 0
    ELSE (IF Head(ns).type = "function" THEN Len(Head(ns).calls)
          ELSE Len(Head(ns).bases))
         + RecordedTargets(Tail(ns))

\* the function nodes with the id node_id
FunctionNodesWithId(node_id) ==
    SelectSeq(nodes, LAMBDA n : n.type = "function" /\ n.id = node_id)

\* C21: the number of edges is the number of call names of the function
\* nodes plus the number of base names of the class nodes, and so is
\* total_edges; the 'calls' edges leaving the id of a function node are as
\* many as the call names of the function nodes with that id.
EdgesMatchRecordedTargets ==
    /\ Len(edges) = RecordedTargets(nodes)
    /\ ret.op = "get_statistics" => ret.value.total_edges = RecordedTargets(nodes)
    /\ \A k \in 1..Len(nodes) :
          nodes[k].type = "function" =>
              Cardinality({i \in 1..Len(edges) :
                              edges[i].type = "calls" /\ edges[i].from = nodes[k].id})
                  = RecordedTargets(FunctionNodesWithId(nodes[k].id))

\* C21 witness: statistics of a graph that holds two function nodes with one
\* id, a repeated call name, a class with two bases, and a call that raised
EdgesOfSharedIds ==
    /\ ret.op = "get_statistics"
    /\ ret.value.total_edges >= 5
    /\ \E j, k \in 1..Len(nodes) :
          /\ j < k
          /\ nodes[j].type = "function" /\ nodes[k].type = "function"
          /\ nodes[j].id = nodes[k].id
          /\ Len(nodes[j].calls) > Cardinality(Range(nodes[j].calls))
    /\ \E k \in 1..Len(nodes) : nodes[k].type = "class" /\ Len(nodes[k].bases) = 2
    /\ \E c \in 1..Len(log) : log[c].raised

-----------------------------------------------------------------------------
(* Extraction followed by ingestion: methods are functions too *)

\* the files analysed and ingested: a function, a class with one method,
\* classes with direct and wrapped definitions, a JavaScript file
IngestPaths == {PA, PDog, PK, PE}

\* add_file_analysis on the dict that analyze has just returned
IngestExtracted ==
    /\ ret.op = "analyze"
    /\ ret.value # EmptyDict
    /\ AddFileAnalysis(ret.value)

NextIngest ==
    \/ \E file_path \in IngestPaths : Analyze(file_path)
    \/ IngestExtracted
    \/ GetStatistics

IngestSpec == InitExtract /\ [][NextIngest]_vars

\* the function definitions that are children of the root of the tree
TopLevelDefs(tree) ==
    SelectSeq(tree.children, LAMBDA n : n.type = "function_definition")

\* the number of method entries of the class records cs
RECURSIVE MethodCount(_)
MethodCount(cs) ==
    IF cs = <<>> THEN 0 ELSE Len(Head(cs).methods) + MethodCount(Tail(cs))

\* over the calls from the c-th on: the function definitions of the ingested
\* files, and their direct methods plus top-level functions
RECURSIVE DefsIngested(_), MethodsAndTopLevelIngested(_)
DefsIngested(c) ==
    IF c > Len(log) THEN 0
    ELSE Len(FunctionDefs(Disk(LogPath(c)).tree)) + DefsIngested(c + 1)

MethodsAndTopLevelIngested(c) ==
    IF c > Len(log) THEN 0
    ELSE MethodCount(log[c].analysis.classes)
         + Len(TopLevelDefs(Disk(LogPath(c)).tree))
         + MethodsAndTopLevelIngested(c + 1)

\* the places of the records rs that hold a method of the class record cls
PlacesOfMethods(rs, cls) ==
    {j \in 1..Len(rs) :
        /\ rs[j].type = "function"
        /\ \E i \in 1..Len(cls.methods) :
              /\ rs[j].name = cls.methods[i].name
              /\ rs[j].line_start = cls.methods[i].line}

\* C22: every method of a class record is a function record of the same
\* extraction with the same name and start line; ingesting the extraction
\* appends, for a class with m methods, the class node and m function nodes
\* of that file; the 'functions' statistic counts every function definition
\* of the ingested files, methods and top-level functions included.
MethodsAreAlsoFunctions ==
    /\ Extracted =>
          \A k \in 1..Len(ret.value.classes) :
              LET cls == ret.value.classes[k] IN
              /\ \A i \in 1..Len(cls.methods) :
                    \E j \in 1..Len(ret.value.functions) :
                        /\ ret.value.functions[j].name = cls.methods[i].name
                        /\ ret.value.functions[j].line_start = cls.methods[i].line
              /\ Cardinality(PlacesOfMethods(ret.value.functions, cls))
                    = Len(cls.methods)
    /\ ret.op = "add_file_analysis" =>
          LET c == Len(log)
              added == SubSeq(nodes, log[c].n0 + 1, log[c].n1)
              classes == log[c].analysis.classes
          IN /\ ~log[c].raised
             /\ Len(added) = Len(log[c].analysis.functions) + Len(classes)
             /\ \A n \in Range(added) : n.file = LogPath(c)
             /\ \A k \in 1..Len(classes) :
                   Cardinality(PlacesOfMethods(added, classes[k])
                               \cup {j \in 1..Len(added) :
                                        /\ added[j].type = "class"
                                        /\ added[j].name = classes[k].name
                                        /\ added[j].line_start = classes[k].line_start})
                       = 1 + Len(classes[k].methods)
    /\ ret.op = "get_statistics" =>
          /\ ret.value.functions = DefsIngested(1)
          /\ ret.value.functions >= MethodsAndTopLevelIngested(1)
          /\ ret.value.total_nodes = ret.value.functions + ret.value.classes

\* C22 witness: statistics after the file with the classes K and L and the
\* file with the class Dog were extracted and ingested: six functions, all
\* of them defined inside classes, four of them methods
MethodsCountedAsFunctions ==
    /\ ret.op = "get_statistics"
    /\ Len(log) = 2
    /\ {LogPath(1), LogPath(2)} = {PK, PDog}
    /\ ret.value.functions = 6
    /\ ret.value.classes = 3
    /\ MethodsAndTopLevelIngested(1) = 4

====
